---- MODULE Spec2Model ----
(***************************************************************************)
(* A model of tsp.cc: the union-find structure, Kruskal's minimum          *)
(* spanning tree (mst), the tree-walk 2-approximation (metric_tsp) and the *)
(* subset dynamic programme (tsp).                                         *)
(*                                                                         *)
(* Costs are floats.  The model works in units of 2^104, the spacing of    *)
(* floats in the top binade: every multiple k * 2^104 with                 *)
(* 0 <= k <= 2^24 - 1 is a float, FLT_MAX is (2^24 - 1) * 2^104, the sum   *)
(* of two such floats is exact when it is at most FLT_MAX and is +infinity *)
(* otherwise.  A cost is therefore a natural number of at most FLT_MAX and *)
(* Inf stands for +infinity.                                               *)
(***************************************************************************)
EXTENDS Integers, Sequences, FiniteSets

(* main: int n = 4.  Runs are modelled for every n in 1..N. *)
N == 4

(* <cfloat> FLT_MAX in units of 2^104. *)
FLT_MAX == 16777215

(* Costs are drawn from 0..MaxCost and FLT_MAX. *)
MaxCost == 2

(* join increments a rank on every call whose two roots have equal rank,   *)
(* also when both are the same root; the model stops such calls at MaxRank.*)
MaxRank == 3

VARIABLES
  n,                \* number of vertices
  cost,             \* the cost matrix
  pc,               \* position in the running function
  edges,            \* mst: the sorted edge list
  idx,              \* the loop counter i of the running loop
  size,             \* mst: accepted edges
  tree,             \* mst: the tree; metric_tsp: its copy
  parent, rank,     \* UnionFind
  adjacency_lists,  \* metric_tsp
  visited,          \* metric_tsp
  open,             \* metric_tsp: the stack, top last
  tour,             \* metric_tsp, tsp
  opt,              \* tsp: the table
  s,                \* tsp: the subset bitmask
  selected,         \* tsp
  uninit_used,      \* tsp: best_k was read without having been assigned
  joined            \* history: the partition made by the join calls so far

vars == <<n, cost, pc, edges, idx, size, tree, parent, rank, adjacency_lists,
          visited, open, tour, opt, s, selected, uninit_used, joined>>

Verts(nn) == 0 .. (nn - 1)

Inf == FLT_MAX + 1

(* float + float *)
FAdd(a, b) == IF a + b > FLT_MAX THEN Inf ELSE a + b

CostVals == (0 .. MaxCost) \cup {FLT_MAX}

Pairs(nn) == { p \in Verts(nn) \X Verts(nn) : p[1] < p[2] }

(* a symmetric matrix with a zero diagonal, from the costs of its pairs *)
Matrix(nn, f) ==
  [a \in Verts(nn) |-> [b \in Verts(nn) |->
     IF a = b THEN 0 ELSE IF a < b THEN f[<<a, b>>] ELSE f[<<b, a>>]]]

CostMatrices(nn) == { Matrix(nn, f) : f \in [Pairs(nn) -> CostVals] }

(* main: the matrix c *)
DemoCost ==
  LET c == << <<0, 1, 3, 2>>, <<1, 0, 2, 4>>, <<3, 2, 0, 3>>, <<2, 4, 3, 0>> >>
  IN  [a \in Verts(4) |-> [b \in Verts(4) |-> c[a + 1][b + 1]]]

(* the inputs of a run: every matrix within the bounds, and main's *)
Inputs(nn) == CostMatrices(nn) \cup (IF nn = 4 THEN {DemoCost} ELSE {})

-----------------------------------------------------------------------------
(* UnionFind *)

(* make_set with parent[i] = 0 for parent[i] = i *)
MakeSetsZero(nn) == [v \in Verts(nn) |-> 0]

(* UnionFind(n): make_set(i) for every i *)
MakeSets(nn) == [v \in Verts(nn) |-> v]

ZeroRanks(nn) == [v \in Verts(nn) |-> 0]

(* find_set: the parent links after the call (path compression) *)
RECURSIVE FindSetParent(_, _)
FindSetParent(par, v) ==
  IF par[v] # v
    THEN LET p1 == FindSetParent(par, par[v])
         IN  [p1 EXCEPT ![v] = p1[par[v]]]
    ELSE par

(* find_set: the value returned *)
FindSet(par, v) == FindSetParent(par, v)[v]

(* join that links the arguments for their roots *)
JoinBuggy(par, rk, a, b) ==
  LET ra == FindSet(par, a)
      p1 == FindSetParent(par, a)
      rb == FindSet(p1, b)
      p2 == FindSetParent(p1, b)
  IN  IF rk[ra] > rk[rb]
        THEN [parent |-> [p2 EXCEPT ![b] = ra], rank |-> rk]
        ELSE [parent |-> [p2 EXCEPT ![a] = rb],
              rank   |-> IF rk[ra] = rk[rb]
                           THEN [rk EXCEPT ![rb] = rk[rb] + 1] ELSE rk]

(* join: parent and rank after the call *)
Join(par, rk, a, b) ==
  LET ra == FindSet(par, a)
      p1 == FindSetParent(par, a)
      rb == FindSet(p1, b)
      p2 == FindSetParent(p1, b)
  IN  IF rk[ra] > rk[rb]
        THEN [parent |-> [p2 EXCEPT ![rb] = ra], rank |-> rk]
        ELSE [parent |-> [p2 EXCEPT ![ra] = rb],
              rank   |-> IF rk[ra] = rk[rb]
                           THEN [rk EXCEPT ![rb] = rk[rb] + 1] ELSE rk]

(* the rank join would write is within the model's cap *)
JoinInCap(par, rk, a, b) ==
  LET ra == FindSet(par, a)
      rb == FindSet(par, b)
  IN  rk[ra] = rk[rb] => rk[rb] < MaxRank

(* history of join(a, b): the classes of a and b become one *)
Merge(part, a, b) ==
  LET m == IF part[a] < part[b] THEN part[a] ELSE part[b]
  IN  [v \in DOMAIN part |-> IF part[v] \in {part[a], part[b]} THEN m ELSE part[v]]

-----------------------------------------------------------------------------
(* The union-find structure on its own: any calls of join and find_set. *)

Idle ==
  /\ edges = <<>> /\ idx = 0 /\ size = 0 /\ tree = <<>>
  /\ adjacency_lists = <<>> /\ visited = <<>> /\ open = <<>> /\ tour = <<>>
  /\ opt = <<>> /\ s = 0 /\ selected = <<>> /\ uninit_used = FALSE

InitUF ==
  /\ n \in 1 .. N
  /\ cost = <<>>
  /\ pc = "uf"
  /\ parent = MakeSets(n)
  /\ rank = ZeroRanks(n)
  /\ joined = MakeSets(n)
  /\ Idle

CallJoin ==
  /\ pc = "uf"
  /\ \E a, b \in Verts(n) :
       /\ JoinInCap(parent, rank, a, b)
       /\ parent' = Join(parent, rank, a, b).parent
       /\ rank' = Join(parent, rank, a, b).rank
       /\ joined' = Merge(joined, a, b)
  /\ UNCHANGED <<n, cost, pc, edges, idx, size, tree, adjacency_lists, visited,
                 open, tour, opt, s, selected, uninit_used>>

CallFindSet ==
  /\ pc = "uf"
  /\ \E a \in Verts(n) : parent' = FindSetParent(parent, a)
  /\ UNCHANGED <<n, cost, pc, edges, idx, size, tree, rank, adjacency_lists,
                 visited, open, tour, opt, s, selected, uninit_used, joined>>

NextUF == CallJoin \/ CallFindSet

SpecUF == InitUF /\ [][NextUF]_vars

-----------------------------------------------------------------------------
(* mst *)

Edge(h, t, c) == [head |-> h, tail |-> t, cost |-> c]

Range(seq) == { seq[k] : k \in DOMAIN seq }

(* the two loops that push every pair a < b, in the order pushed *)
RECURSIVE EnumEdges(_, _, _, _)
EnumEdges(nn, c, a, b) ==
  IF a >= nn THEN <<>>
  ELSE IF b >= nn THEN EnumEdges(nn, c, a + 1, a + 2)
  ELSE <<Edge(a, b, c[a][b])>> \o EnumEdges(nn, c, a, b + 1)

(* operator< with the comparison turned round *)
EdgeGreater(e, f) == e.cost > f.cost

(* Edge::operator< *)
EdgeLess(e, f) == e.cost < f.cost

(* std::sort is not stable: every order of the edges in which no edge is   *)
(* less than an earlier one                                                *)
RECURSIVE SortedOrders(_)
SortedOrders(S) ==
  IF S = {} THEN {<<>>}
  ELSE UNION { { <<e>> \o t : t \in SortedOrders(S \ {e}) } :
               e \in { x \in S : \A y \in S : ~EdgeLess(y, x) } }

Sort(seq) == SortedOrders(Range(seq))

(* the test of the scan loop: the two find_set calls give different roots *)
DifferentSets(par, u, v) ==
  FindSet(par, u) # FindSet(FindSetParent(par, u), v)

-----------------------------------------------------------------------------
(* metric_tsp *)

(* the loop with only adjacency_lists[u].push_back(v) *)
RECURSIVE AddTreeEdgesOneWay(_, _, _)
AddTreeEdgesOneWay(adj, tr, k) ==
  IF k > Len(tr) THEN adj
  ELSE LET u == tr[k].head
           v == tr[k].tail
       IN  AddTreeEdgesOneWay([adj EXCEPT ![u] = Append(adj[u], v)], tr, k + 1)

(* the loop that pushes each tree edge's ends onto each other's list *)
RECURSIVE AddTreeEdges(_, _, _)
AddTreeEdges(adj, tr, k) ==
  IF k > Len(tr) THEN adj
  ELSE LET u == tr[k].head
           v == tr[k].tail
           a1 == [adj EXCEPT ![u] = Append(adj[u], v)]
       IN  AddTreeEdges([a1 EXCEPT ![v] = Append(a1[v], u)], tr, k + 1)

AdjacencyLists(nn, tr) == AddTreeEdges([v \in Verts(nn) |-> <<>>], tr, 1)

(* the pushes made from the end of u's list to its start *)
RECURSIVE Reverse(_)
Reverse(seq) ==
  IF seq = <<>> THEN <<>> ELSE Reverse(Tail(seq)) \o <<Head(seq)>>

PushNeighboursReversed(stack, adj, u) ==
  SubSeq(stack, 1, Len(stack) - 1) \o Reverse(adj[u])

(* the stack after open.pop() and the pushes of u's neighbours *)
PushNeighbours(stack, adj, u) == SubSeq(stack, 1, Len(stack) - 1) \o adj[u]

-----------------------------------------------------------------------------
(* main's call metric_tsp(n, c), which calls mst(n, c). *)

Init ==
  /\ n \in 1 .. N
  /\ cost \in Inputs(n)
  /\ pc = "mst"
  /\ parent = <<>> /\ rank = <<>> /\ joined = <<>>
  /\ Idle

(* mst up to the scan loop: the edge list, the sort, the forest *)
MstSort ==
  /\ pc = "mst"
  /\ edges' \in Sort(EnumEdges(n, cost, 0, 1))
  /\ tree' = <<>>
  /\ parent' = MakeSets(n)
  /\ rank' = ZeroRanks(n)
  /\ size' = 0
  /\ idx' = 0
  /\ pc' = "scan"
  /\ UNCHANGED <<n, cost, adjacency_lists, visited, open, tour, opt, s,
                 selected, uninit_used, joined>>

(* one iteration of the scan loop; edges[i] past the end is undefined *)
ScanStep ==
  /\ pc = "scan"
  /\ size < n - 1
  /\ IF idx >= Len(edges)
       THEN /\ pc' = "ub"
            /\ UNCHANGED <<idx, size, tree, parent, rank>>
       ELSE LET u == edges[idx + 1].head
                v == edges[idx + 1].tail
                p2 == FindSetParent(FindSetParent(parent, u), v)
            IN  /\ IF DifferentSets(parent, u, v)
                     THEN /\ tree' = Append(tree, edges[idx + 1])
                          /\ parent' = Join(p2, rank, u, v).parent
                          /\ rank' = Join(p2, rank, u, v).rank
                          /\ size' = size + 1
                     ELSE /\ parent' = p2
                          /\ UNCHANGED <<tree, rank, size>>
                /\ idx' = idx + 1
                /\ pc' = pc
  /\ UNCHANGED <<n, cost, edges, adjacency_lists, visited, open, tour, opt, s,
                 selected, uninit_used, joined>>

(* mst returns; metric_tsp builds the lists and pushes the start vertex *)
MstReturn ==
  /\ pc = "scan"
  /\ ~(size < n - 1)
  /\ adjacency_lists' = AdjacencyLists(n, tree)
  /\ tour' = <<>>
  /\ visited' = [v \in Verts(n) |-> FALSE]
  /\ open' = <<0>>
  /\ pc' = "walk"
  /\ UNCHANGED <<n, cost, edges, idx, size, tree, parent, rank, opt, s,
                 selected, uninit_used, joined>>

(* one iteration of the walk; open.top() of an empty stack is undefined *)
WalkStep ==
  /\ pc = "walk"
  /\ Len(tour) < n
  /\ IF open = <<>>
       THEN /\ pc' = "ub"
            /\ UNCHANGED <<open, tour, visited>>
       ELSE LET u == open[Len(open)]
            IN  /\ IF ~visited[u]
                     THEN /\ tour' = Append(tour, u)
                          /\ visited' = [visited EXCEPT ![u] = TRUE]
                          /\ open' = PushNeighbours(open, adjacency_lists, u)
                     ELSE /\ open' = SubSeq(open, 1, Len(open) - 1)
                          /\ UNCHANGED <<tour, visited>>
                /\ pc' = pc
  /\ UNCHANGED <<n, cost, edges, idx, size, tree, parent, rank,
                 adjacency_lists, opt, s, selected, uninit_used, joined>>

(* the walk is over: close the tour and return it *)
WalkReturn ==
  /\ pc = "walk"
  /\ ~(Len(tour) < n)
  /\ tour' = Append(tour, 0)
  /\ pc' = "done"
  /\ UNCHANGED <<n, cost, edges, idx, size, tree, parent, rank,
                 adjacency_lists, visited, open, opt, s, selected,
                 uninit_used, joined>>

Next == MstSort \/ ScanStep \/ MstReturn \/ WalkStep \/ WalkReturn

Spec == Init /\ [][Next]_vars

-----------------------------------------------------------------------------
(* tsp *)

(* long nsub = 1 << n *)
NSub(nn) == 2 ^ nn

(* the vertices u with s & (1 << u) *)
Subset(nn, mask) == { u \in Verts(nn) : (mask \div (2 ^ u)) % 2 = 1 }

(* vector< vector<float> > opt(nsub, vector<float>(n)): all zero *)
ZeroTable(nn) == [m \in 0 .. (NSub(nn) - 1) |-> [v \in Verts(nn) |-> 0]]

(* s & ~(1 << i) *)
ClearBit(nn, mask, i) == IF i \in Subset(nn, mask) THEN mask - 2 ^ i ELSE mask

(* the loop over the subset that lowers min_subpath from FLT_MAX, from     *)
(* vertex j on with min_subpath = m                                        *)
RECURSIVE MinSubpath(_, _, _, _, _, _, _)
MinSubpath(o, nn, c, mask, i, j, m) ==
  IF j >= nn THEN m
  ELSE LET t == ClearBit(nn, mask, i)
           cand == FAdd(o[t][j], c[j][i])
       IN  IF j \in Subset(nn, mask) /\ j # i /\ cand < m
             THEN MinSubpath(o, nn, c, mask, i, j + 1, cand)
             ELSE MinSubpath(o, nn, c, mask, i, j + 1, m)

(* the body of the table loop for subset s and vertex i *)
WriteCell(o, nn, c, mask, i) ==
  LET k == Cardinality(Subset(nn, mask))
  IN  IF k = 2 THEN [o EXCEPT ![mask][i] = c[0][i]]
      ELSE IF k > 2
        THEN [o EXCEPT ![mask][i] = MinSubpath(o, nn, c, mask, i, 0, FLT_MAX)]
        ELSE o

(* int best_k; before any assignment *)
Unassigned == -1

(* the loop over k that picks best_k, from vertex k on with min_subpath = m *)
(* and best_k = best, for the tour's last vertex j                         *)
RECURSIVE BestK(_, _, _, _, _, _, _, _)
BestK(o, nn, c, mask, sel, j, k, mb) ==
  IF k >= nn THEN mb[2]
  ELSE IF ~sel[k] /\ FAdd(o[mask][k], c[k][j]) < mb[1]
    THEN BestK(o, nn, c, mask, sel, j, k + 1, <<FAdd(o[mask][k], c[k][j]), k>>)
    ELSE BestK(o, nn, c, mask, sel, j, k + 1, mb)

PickBest(o, nn, c, mask, sel, j) ==
  BestK(o, nn, c, mask, sel, j, 0, <<FLT_MAX, Unassigned>>)

(* the table loop from (s, i) on *)
RECURSIVE FillTable(_, _, _, _, _)
FillTable(o, nn, c, mask, i) ==
  IF mask >= NSub(nn) THEN o
  ELSE IF i >= nn THEN FillTable(o, nn, c, mask + 2, 1)
  ELSE FillTable(WriteCell(o, nn, c, mask, i), nn, c, mask, i + 1)

(* the reconstruction loop from iteration i on; defined is FALSE when      *)
(* best_k is read unassigned                                               *)
RECURSIVE Reconstruct(_, _, _, _, _, _, _)
Reconstruct(o, nn, c, mask, sel, tr, i) ==
  IF i >= nn - 1 THEN [defined |-> TRUE, tour |-> Append(tr, 0)]
  ELSE LET k == PickBest(o, nn, c, mask, sel, tr[Len(tr)])
       IN  IF k = Unassigned THEN [defined |-> FALSE, tour |-> tr]
           ELSE Reconstruct(o, nn, c, mask - 2 ^ k, [sel EXCEPT ![k] = TRUE],
                            Append(tr, k), i + 1)

(* tsp(n, cost) as one call *)
Tsp(nn, c) ==
  Reconstruct(FillTable(ZeroTable(nn), nn, c, 1, 1), nn, c, NSub(nn) - 1,
              [v \in Verts(nn) |-> v = 0], <<0>>, 0)

-----------------------------------------------------------------------------
(* main's call tsp(n, c). *)

InitTsp ==
  /\ n \in 1 .. N
  /\ cost \in Inputs(n)
  /\ pc = "fill"
  /\ opt = ZeroTable(n)
  /\ s = 1
  /\ idx = 1
  /\ edges = <<>> /\ size = 0 /\ tree = <<>>
  /\ parent = <<>> /\ rank = <<>> /\ joined = <<>>
  /\ adjacency_lists = <<>> /\ visited = <<>> /\ open = <<>> /\ tour = <<>>
  /\ selected = <<>> /\ uninit_used = FALSE

(* one iteration of the inner table loop *)
FillCell ==
  /\ pc = "fill"
  /\ s < NSub(n)
  /\ idx < n
  /\ opt' = WriteCell(opt, n, cost, s, idx)
  /\ idx' = idx + 1
  /\ UNCHANGED <<n, cost, pc, edges, size, tree, parent, rank,
                 adjacency_lists, visited, open, tour, s, selected,
                 uninit_used, joined>>

(* the inner loop is over: the next odd s *)
FillNextSubset ==
  /\ pc = "fill"
  /\ s < NSub(n)
  /\ ~(idx < n)
  /\ s' = s + 2
  /\ idx' = 1
  /\ UNCHANGED <<n, cost, pc, edges, size, tree, parent, rank,
                 adjacency_lists, visited, open, tour, opt, selected,
                 uninit_used, joined>>

(* the table loop is over: set up the reconstruction *)
FillDone ==
  /\ pc = "fill"
  /\ ~(s < NSub(n))
  /\ tour' = <<0>>
  /\ selected' = [v \in Verts(n) |-> v = 0]
  /\ s' = NSub(n) - 1
  /\ idx' = 0
  /\ pc' = "recon"
  /\ UNCHANGED <<n, cost, edges, size, tree, parent, rank, adjacency_lists,
                 visited, open, opt, uninit_used, joined>>

(* tour.push_back(k); selected[k] = true; s -= 1 << k *)
Take(k) ==
  /\ tour' = Append(tour, k)
  /\ selected' = [selected EXCEPT ![k] = TRUE]
  /\ s' = s - 2 ^ k
  /\ idx' = idx + 1
  /\ pc' = pc

(* one iteration of the reconstruction loop.  An unassigned best_k holds   *)
(* any int: a vertex, or (g = -1) an index outside selected; opt[s] with   *)
(* s < 0 is outside the table                                              *)
ReconStep ==
  /\ pc = "recon"
  /\ idx < n - 1
  /\ IF s < 0
       THEN /\ pc' = "ub"
            /\ UNCHANGED <<tour, selected, s, idx, uninit_used>>
       ELSE LET k == PickBest(opt, n, cost, s, selected, tour[Len(tour)])
            IN  IF k # Unassigned
                  THEN Take(k) /\ UNCHANGED uninit_used
                  ELSE /\ uninit_used' = TRUE
                       /\ \E g \in (-1) .. (n - 1) :
                            IF g < 0
                              THEN /\ pc' = "ub"
                                   /\ UNCHANGED <<tour, selected, s, idx>>
                              ELSE Take(g)
  /\ UNCHANGED <<n, cost, edges, size, tree, parent, rank, adjacency_lists,
                 visited, open, opt, joined>>

(* the reconstruction is over: close the tour and return it *)
ReconReturn ==
  /\ pc = "recon"
  /\ ~(idx < n - 1)
  /\ tour' = Append(tour, 0)
  /\ pc' = "done"
  /\ UNCHANGED <<n, cost, edges, idx, size, tree, parent, rank,
                 adjacency_lists, visited, open, opt, s, selected,
                 uninit_used, joined>>

NextTsp == FillCell \/ FillNextSubset \/ FillDone \/ ReconStep \/ ReconReturn

SpecTsp == InitTsp /\ [][NextTsp]_vars

-----------------------------------------------------------------------------
(* What the claims speak of. *)

(* the total cost of a walk, as a sum of reals *)
RECURSIVE WalkCost(_, _, _)
WalkCost(c, tr, k) ==
  IF k >= Len(tr) THEN 0 ELSE c[tr[k]][tr[k + 1]] + WalkCost(c, tr, k + 1)

TourCost(c, tr) == WalkCost(c, tr, 1)

(* every order of the vertices of S *)
RECURSIVE Orders(_)
Orders(S) ==
  IF S = {} THEN {<<>>}
  ELSE UNION { { <<v>> \o t : t \in Orders(S \ {v}) } : v \in S }

(* every Hamiltonian cycle through vertex 0 *)
Cycles(nn) == { <<0>> \o p \o <<0>> : p \in Orders(Verts(nn) \ {0}) }

(* length n + 1, from 0 back to 0, every vertex once among the first n *)
IsTour(nn, tr) ==
  /\ Len(tr) = nn + 1
  /\ tr[1] = 0
  /\ tr[nn + 1] = 0
  /\ { tr[k] : k \in 1 .. nn } = Verts(nn)

TriangleInequality(nn, c) ==
  \A a, b, d \in Verts(nn) : c[a][d] <= c[a][b] + c[b][d]

(* the vertices reached from those of R along the pairs of E *)
RECURSIVE Reach(_, _)
Reach(E, R) ==
  LET R2 == R \cup { p[2] : p \in { q \in E : q[1] \in R } }
                \cup { p[1] : p \in { q \in E : q[2] \in R } }
  IN  IF R2 = R THEN R ELSE Reach(E, R2)

Connects(nn, E) == Reach(E, {0}) = Verts(nn)

(* no cycle: every non-empty set of the pairs touches more vertices than   *)
(* it has pairs                                                            *)
Acyclic(E) ==
  \A F \in SUBSET E :
    F # {} => Cardinality({ p[1] : p \in F } \cup { p[2] : p \in F })
                > Cardinality(F)

RECURSIVE SumCost(_, _)
SumCost(c, E) ==
  IF E = {} THEN 0
  ELSE LET p == CHOOSE q \in E : TRUE
       IN  c[p[1]][p[2]] + SumCost(c, E \ {p})

SpanningTrees(nn) ==
  { E \in SUBSET Pairs(nn) : Cardinality(E) = nn - 1 /\ Connects(nn, E) }

TreePairs(tr) == { <<tr[k].head, tr[k].tail>> : k \in DOMAIN tr }

(* the least cost of a path from 0 through exactly the vertices of S to i  *)
PathCosts(c, S, i) ==
  { TourCost(c, <<0>> \o p \o <<i>>) : p \in Orders(S \ {0, i}) }

LeastOf(V) == CHOOSE m \in V : \A x \in V : m <= x

(* iterating parent k times *)
RECURSIVE Ancestor(_, _, _)
Ancestor(par, v, k) == IF k = 0 THEN v ELSE Ancestor(par, par[v], k - 1)

(* no sum of up to N costs exceeds FLT_MAX *)
NoHugeCost == \A a, b \in Verts(n) : N * cost[a][b] <= FLT_MAX

-----------------------------------------------------------------------------
(* The claims. *)

(* C1: the tour tsp returns costs no more than any Hamiltonian cycle.      *)
(* Stated for the runs in which best_k is assigned in every iteration.     *)
C1_ExactTourIsMinimal ==
  (pc = "done" /\ ~uninit_used) =>
     \A h \in Cycles(n) : TourCost(cost, tour) <= TourCost(cost, h)

(* C2: mst returns n - 1 edges of the graph that form an acyclic subgraph  *)
(* connecting all n vertices, of the least total cost of a spanning tree.  *)
(* Stated of the tree at mst's return (no later step changes it).          *)
C2_MstIsMinimumSpanningTree ==
  (pc = "walk" /\ tour = <<>>) =>
    /\ Len(tree) = n - 1
    /\ Cardinality(TreePairs(tree)) = n - 1
    /\ TreePairs(tree) \subseteq Pairs(n)
    /\ \A k \in DOMAIN tree : tree[k].cost = cost[tree[k].head][tree[k].tail]
    /\ Acyclic(TreePairs(tree))
    /\ Connects(n, TreePairs(tree))
    /\ \A E \in SpanningTrees(n) :
         SumCost(cost, TreePairs(tree)) <= SumCost(cost, E)

(* mst has returned a tree of four vertices after rejecting an edge *)
C2_Witness ==
  pc = "walk" /\ tour = <<>> /\ n = 4 /\ Len(tree) = 3 /\ idx > size /\ cost # DemoCost

(* C3: under the triangle inequality, the tour of metric_tsp costs at most *)
(* twice the tour tsp returns for the same matrix.                         *)
C3_ApproxWithinTwiceExact ==
  (pc = "done" /\ TriangleInequality(n, cost)) =>
     /\ Tsp(n, cost).defined
     /\ TourCost(cost, tour) <= 2 * TourCost(cost, Tsp(n, cost).tour)

(* the pops the walk still has to make: the stack's entries and one for   *)
(* every list entry of a vertex not yet visited                            *)
RECURSIVE ListEntries(_, _)
ListEntries(adj, S) ==
  IF S = {} THEN 0
  ELSE LET v == CHOOSE x \in S : TRUE
       IN  Len(adj[v]) + ListEntries(adj, S \ {v})

PopsLeft ==
  Len(open) + ListEntries(adjacency_lists, { v \in Verts(n) : ~visited[v] })

C4_Safe ==
  /\ pc # "ub"
  /\ pc = "walk" /\ Len(tour) < n => open # <<>>
  /\ pc = "done" =>
       /\ IsTour(n, tour)
       /\ n = 1 => tour = <<0, 0>>
       /\ n = 2 => tour = <<0, 1, 0>>

(* C4: metric_tsp never pops an empty stack, its walk ends (every          *)
(* iteration lowers the number of pops left, which is never negative, by   *)
(* one) and it returns a tour: n + 1 vertices, from 0 back to 0, each      *)
(* vertex once among the first n; <<0,0>> for n = 1 and <<0,1,0>> for      *)
(* n = 2.                                                                  *)
C4_ApproxReturnsTour ==
  [][ /\ C4_Safe
      /\ C4_Safe'
      /\ (pc = "walk" /\ pc' = "walk") =>
            PopsLeft' = PopsLeft - 1 /\ PopsLeft' >= 0 ]_vars

(* a tour returned for four vertices whose costs break the triangle        *)
(* inequality                                                              *)
C4_Witness ==
  pc = "done" /\ n = 4 /\ ~TriangleInequality(n, cost) /\ IsTour(n, tour)

(* C5: tsp returns a tour: n + 1 vertices, from 0 back to 0, each vertex   *)
(* once among the first n; <<0,0>> for n = 1 and <<0,1,0>> for n = 2.      *)
C5_ExactReturnsTour ==
  /\ pc # "ub"
  /\ pc = "done" =>
       /\ IsTour(n, tour)
       /\ n = 1 => tour = <<0, 0>>
       /\ n = 2 => tour = <<0, 1, 0>>

(* C6, as claimed: on main's matrix the tour of metric_tsp costs at most   *)
(* 16 and exactly 8, whichever of (0,3,2) and (1,2,2) the sort puts first. *)
C6_DemoCostIsEight ==
  (pc = "done" /\ cost = DemoCost) =>
     TourCost(cost, tour) <= 16 /\ TourCost(cost, tour) = 8

(* C6, amended: on main's matrix the tour of metric_tsp is 0 3 1 2 0 and   *)
(* costs 11, which is at most 16, whichever of (0,3,2) and (1,2,2) the     *)
(* sort puts first.                                                        *)
C6_DemoCostIsEleven ==
  (pc = "done" /\ cost = DemoCost) =>
     /\ TourCost(cost, tour) <= 16
     /\ TourCost(cost, tour) = 11
     /\ tour = <<0, 3, 1, 2, 0>>

(* the tour for main's matrix when the sort puts (1,2,2) before (0,3,2) *)
C6_Witness ==
  /\ pc = "done" /\ cost = DemoCost
  /\ edges[2] = Edge(1, 2, 2) /\ edges[3] = Edge(0, 3, 2)

(* C7: once the table is filled, opt[s][i] is the least cost of a path     *)
(* from 0 through exactly the vertices of s to i, for every s with 0 and   *)
(* at least one more vertex and every i in s other than 0.  Stated for the *)
(* matrices whose path costs stay far below FLT_MAX.                       *)
C7_TableHoldsLeastPathCosts ==
  (pc = "recon" /\ NoHugeCost) =>
     \A m \in 0 .. (NSub(n) - 1) :
       \A v \in Subset(n, m) \ {0} :
         0 \in Subset(n, m) => opt[m][v] = LeastOf(PathCosts(cost, Subset(n, m), v))

(* C8: the parent links form a forest; find_set gives two elements the     *)
(* same representative exactly when the joins made so far connect them;    *)
(* a find_set call leaves the sets as they are.                            *)
C8_ForestAndSets ==
  pc = "uf" =>
    /\ \A v \in Verts(n) :
         LET r == Ancestor(parent, v, n) IN parent[r] = r
    /\ \A a, b \in Verts(n) :
         (FindSet(parent, a) = FindSet(parent, b)) <=> (joined[a] = joined[b])
    /\ \A v, a, b \in Verts(n) :
         LET p1 == FindSetParent(parent, v)
         IN  (FindSet(p1, a) = FindSet(p1, b))
               <=> (FindSet(parent, a) = FindSet(parent, b))

(* a chain of two links, a rank that only a join within one set can give,  *)
(* and two sets left                                                       *)
C8_Witness ==
  /\ pc = "uf"
  /\ \E v \in Verts(n) : parent[v] # v /\ parent[parent[v]] # parent[v]
  /\ \E r \in Verts(n) : rank[r] >= 3
  /\ \E a, b \in Verts(n) : joined[a] # joined[b]

C9_Safe ==
  /\ pc # "ub"
  /\ pc # "mst" => 2 * Len(edges) = n * (n - 1)
  /\ pc = "scan" /\ size < n - 1 => idx < Len(edges)
  /\ pc = "scan" => size = Len(tree) /\ size <= n - 1 /\ idx <= Len(edges)
  /\ pc \in {"walk", "done"} => size = n - 1 /\ Len(tree) = n - 1

(* C9: in every iteration of the scan loop the index is below the number   *)
(* of edges, n(n-1)/2; every iteration raises the index by one, so the     *)
(* loop ends; it ends with exactly n - 1 edges accepted.                   *)
C9_ScanInBoundsAndEnds ==
  [][ /\ C9_Safe
      /\ C9_Safe'
      /\ (pc = "scan" /\ pc' = "scan") => idx' = idx + 1 ]_vars

(* the scan of four vertices has rejected an edge and still needs one *)
C9_Witness == pc = "scan" /\ n = 4 /\ idx = 3 /\ size = 2

(* C10: in every iteration of the reconstruction loop some vertex not yet  *)
(* selected passes the test, so best_k is assigned before it is used.      *)
C10_BestKAssigned ==
  /\ ~uninit_used
  /\ (pc = "recon" /\ idx < n - 1 /\ s >= 0) =>
        PickBest(opt, n, cost, s, selected, tour[Len(tour)]) # Unassigned

====
